---------------------------- MODULE Spec2Model ----------------------------
(***************************************************************************)
(* A state-machine model of the CEL type checker in checker/checker.go.    *)
(*                                                                         *)
(* Check walks an expression tree depth first.  The recursion of the       *)
(* walker is modelled by an explicit stack of frames: every action is the  *)
(* code of one handler between two recursive calls of c.check.  The state  *)
(* is the checker struct (types, references, mappings,                     *)
(* freeTypeVarCounter), the environment's scope stack and its error list,  *)
(* the frame stack, and the type map that Check returns.                   *)
(*                                                                         *)
(* The packages types, decls and the Env type are other files of the       *)
(* repository; their operations are modelled from their description in     *)
(* the specification (sections 3, 4.2 and 4.3).                            *)
(***************************************************************************)
EXTENDS Integers, Sequences, FiniteSets, TLC

VARIABLES
    ast,                 \* parsedExpr.GetExpr(): node id -> node
    container,           \* c.container, a sequence of name segments
    stack,               \* the pending calls of c.check, innermost last
    types,               \* c.types
    references,          \* c.references
    mappings,            \* c.mappings, the substitution store
    freeTypeVarCounter,  \* c.freeTypeVarCounter
    scopes,              \* c.env: the identifier scopes, innermost last
    errors,              \* c.env.errors, in the order of emission
    panicked,            \* setType or setReference has panicked
    calls,               \* history: the invocations of resolveOverload
    typeMap,             \* CheckedExpr.TypeMap, once Check has returned
    done                 \* Check has returned

vars == <<ast, container, stack, types, references, mappings,
          freeTypeVarCounter, scopes, errors, panicked, calls, typeMap, done>>

-----------------------------------------------------------------------------
(* Bounds of the input expressions.                                        *)

MaxArgs == 2      \* arguments of a call whose arguments are all atoms
MaxElems == 2     \* elements of a list literal whose elements are all atoms
MaxDepth == 2     \* nesting depth of composite expressions

\* Child j of node p has id p * IdBase + j, the root has id 1: the ids of an
\* expression are pairwise distinct.  No node has IdBase children or more.
IdBase == 6 + MaxArgs + MaxElems

-----------------------------------------------------------------------------
(* Types (checked.Type).  Every type is a record of the same shape: its    *)
(* kind k, a name n (object name, type parameter name) and its component   *)
(* types a.                                                                *)

Prim(k) == [k |-> k, n |-> <<>>, a |-> <<>>]

Error == Prim("Error")
Dyn == Prim("Dyn")
Null == Prim("Null")
Bool == Prim("Bool")
Int64 == Prim("Int64")
Uint64 == Prim("Uint64")
Double == Prim("Double")
String == Prim("String")
Bytes == Prim("Bytes")

\* A nil *checked.Type: what c.types[id] reads for a missing key, and what a
\* variable declared "var t *checked.Type" holds until it is assigned.
NilType == Prim("nil")

NewList(elem) == [k |-> "List", n |-> <<>>, a |-> <<elem>>]
NewMap(key, value) == [k |-> "Map", n |-> <<>>, a |-> <<key, value>>]
NewObject(name) == [k |-> "Object", n |-> name, a |-> <<>>]
NewType(t) == [k |-> "Type", n |-> <<>>, a |-> <<t>>]
NewTypeParam(name) == [k |-> "TypeParam", n |-> name, a |-> <<>>]
NewFunction(result, params) == [k |-> "Function", n |-> <<>>, a |-> <<result>> \o params]

KindOf(t) == t.k

PrimitiveKinds == {"Null", "Bool", "Int64", "Uint64", "Double", "String", "Bytes"}

IsDynOrError(t) == t.k \in {"Dyn", "Error"}

RECURSIVE HasTypeParam(_)
HasTypeParam(t) ==
    \/ t.k = "TypeParam"
    \/ \E i \in DOMAIN t.a : HasTypeParam(t.a[i])

RECURSIVE Mentions(_, _)
Mentions(t, name) ==
    \/ t.k = "TypeParam" /\ t.n = name
    \/ \E i \in DOMAIN t.a : Mentions(t.a[i], name)

-----------------------------------------------------------------------------
(* The substitution store (types.Mapping): type parameter name -> type.    *)

NewMapping == [p \in {} |-> Dyn]

RECURSIVE Substitute(_, _, _)
Substitute(m, t, typeParamToDyn) ==
    IF t.k = "TypeParam"
    THEN IF t.n \in DOMAIN m THEN Substitute(m, m[t.n], typeParamToDyn)
         ELSE IF typeParamToDyn THEN Dyn ELSE t
    ELSE IF t.a = <<>> THEN t
    ELSE [t EXCEPT !.a = [i \in DOMAIN t.a |-> Substitute(m, t.a[i], typeParamToDyn)]]

NoSubs == [ok |-> FALSE, m |-> NewMapping]

\* bind with the occurs check.
Bind(m, name, t) ==
    IF Mentions(Substitute(m, t, FALSE), name) THEN NoSubs
    ELSE [ok |-> TRUE, m |-> (name :> t) @@ m]

RECURSIVE InternalIsAssignable(_, _, _)
RECURSIVE InternalIsAssignableList(_, _, _)

InternalIsAssignable(m, t1, t2) ==
    IF IsDynOrError(t1) \/ IsDynOrError(t2) THEN [ok |-> TRUE, m |-> m]
    ELSE IF t1.k \in PrimitiveKinds /\ t1.k = t2.k THEN [ok |-> TRUE, m |-> m]
    ELSE IF t1.k = "TypeParam"
    THEN IF t1.n \in DOMAIN m THEN InternalIsAssignable(m, m[t1.n], t2)
         ELSE Bind(m, t1.n, t2)
    ELSE IF t2.k = "TypeParam"
    THEN IF t2.n \in DOMAIN m THEN InternalIsAssignable(m, t1, m[t2.n])
         ELSE Bind(m, t2.n, t1)
    ELSE IF t1.k # t2.k THEN NoSubs
    ELSE IF t1.k \in {"List", "Map", "Type", "Function"}
    THEN InternalIsAssignableList(m, t1.a, t2.a)
    ELSE IF t1.k = "Object" /\ t1.n = t2.n THEN [ok |-> TRUE, m |-> m]
    ELSE NoSubs

InternalIsAssignableList(m, l1, l2) ==
    IF Len(l1) # Len(l2) THEN NoSubs
    ELSE IF l1 = <<>> THEN [ok |-> TRUE, m |-> m]
    ELSE LET rest(head) ==
                 IF head.ok THEN InternalIsAssignableList(head.m, Tail(l1), Tail(l2))
                 ELSE NoSubs
         IN rest(InternalIsAssignable(m, Head(l1), Head(l2)))

\* types.IsAssignable, types.IsAssignableList: the extended store, or none.
IsAssignable(m, t1, t2) == InternalIsAssignable(m, t1, t2)
IsAssignableList(m, l1, l2) == InternalIsAssignableList(m, l1, l2)

MostGeneral(t1, t2) == IF t1.k = "Dyn" \/ t2.k = "Dyn" THEN Dyn ELSE t1


-----------------------------------------------------------------------------
(* Declarations.  Names are sequences of segments: pkg.Msg is              *)
(* <<"pkg", "Msg">>.                                                       *)

MsgName == <<"pkg", "Msg">>

\* The identifier declarations of the root scope.
RootIdents ==
    (<<"x">> :> Int64) @@ (<<"xs">> :> NewList(Int64)) @@
    (<<"m">> :> NewMap(String, Int64)) @@ (<<"msg">> :> NewObject(MsgName)) @@
    (MsgName :> NewType(NewObject(MsgName)))

Overload(id, typeParams, params, result, isInstance) ==
    [id |-> id, typeParams |-> typeParams, params |-> params,
     result |-> result, isInstance |-> isInstance]

TParam == NewTypeParam(<<"T">>)

\* The function declarations.
Functions ==
    (<<"f">> :> << Overload("f_int64", <<>>, <<Int64>>, Int64, FALSE),
                   Overload("f_string", <<>>, <<String>>, String, FALSE) >>) @@
    (<<"_+_">> :> << Overload("add_int64", <<>>, <<Int64, Int64>>, Int64, FALSE),
                     Overload("add_list", << <<"T">> >>,
                              <<NewList(TParam), NewList(TParam)>>, NewList(TParam), FALSE),
                     Overload("add_any", << <<"T">> >>, <<TParam, TParam>>, TParam, FALSE) >>) @@
    (<<"h">> :> << Overload("h_ints", <<>>, <<NewList(Int64)>>, Int64, FALSE),
                   Overload("h_strings", <<>>, <<NewList(String)>>, String, FALSE) >>) @@
    (<<"size">> :> << Overload("size_list", << <<"T">> >>, <<NewList(TParam)>>, Int64, TRUE),
                      Overload("size_string", <<>>, <<String>>, Int64, TRUE),
                      Overload("size_static", << <<"T">> >>, <<NewList(TParam)>>, Int64, FALSE) >>) @@
    (<<"g">> :> << Overload("g_member", <<>>, <<Dyn, String>>, String, TRUE) >>) @@
    (<<"pkg", "g">> :> << Overload("pkg_g_int64", <<>>, <<Int64>>, Bool, FALSE) >>)

\* The type provider: the fields of the message types it knows.
FieldType(t, supportsPresence) == [Type |-> t, SupportsPresence |-> supportsPresence]

MessageFields ==
    MsgName :> (("fx" :> FieldType(Int64, TRUE)) @@ ("fs" :> FieldType(String, FALSE)))

\* The candidates of the qualified-name search: for container a.b and name N,
\* a.b.N, a.N, N.
Candidates(cont, name) ==
    [k \in 1..(Len(cont) + 1) |-> SubSeq(cont, 1, Len(cont) + 1 - k) \o name]

NoDecl == [found |-> FALSE, name |-> <<>>, type |-> NilType]

\* The innermost scope of scs[1..d] that declares name.
RECURSIVE FindIdent(_, _, _)
FindIdent(scs, d, name) ==
    IF d = 0 THEN NoDecl
    ELSE IF name \in DOMAIN scs[d]
    THEN [found |-> TRUE, name |-> name, type |-> scs[d][name]]
    ELSE FindIdent(scs, d - 1, name)

RECURSIVE LookupIdentFrom(_, _, _)
LookupIdentFrom(scs, cands, k) ==
    IF k > Len(cands) THEN NoDecl
    ELSE LET orNext(hit) == IF hit.found THEN hit ELSE LookupIdentFrom(scs, cands, k + 1)
         IN orNext(FindIdent(scs, Len(scs), cands[k]))

LookupIdent(scs, cont, name) == LookupIdentFrom(scs, Candidates(cont, name), 1)

NoFunction == [found |-> FALSE, name |-> <<>>, overloads |-> <<>>]

RECURSIVE LookupFunctionFrom(_, _)
LookupFunctionFrom(cands, k) ==
    IF k > Len(cands) THEN NoFunction
    ELSE IF cands[k] \in DOMAIN Functions
    THEN [found |-> TRUE, name |-> cands[k], overloads |-> Functions[cands[k]]]
    ELSE LookupFunctionFrom(cands, k + 1)

LookupFunction(cont, name) == LookupFunctionFrom(Candidates(cont, name), 1)

EnterScope(scs) == Append(scs, [n \in {} |-> NilType])
ExitScope(scs) == SubSeq(scs, 1, Len(scs) - 1)
AddIdent(scs, name, t) == [scs EXCEPT ![Len(scs)] = (<<name>> :> t) @@ @]

-----------------------------------------------------------------------------
(* Expressions (expr.Expr).                                                *)

Node(kind, name, flag, keys, kids) ==
    [kind |-> kind, name |-> name, flag |-> flag, keys |-> keys, kids |-> kids]

ConstExpr(kind) == Node("const", <<kind>>, FALSE, <<>>, <<>>)
IdentExpr(name) == Node("ident", <<name>>, FALSE, <<>>, <<>>)
\* flag: TestOnly
SelectExpr(operand, field, testOnly) == Node("select", <<field>>, testOnly, <<>>, <<operand>>)
\* flag: Target # nil, and then Target is the first of kids
StaticCall(function, args) == Node("call", <<function>>, FALSE, <<>>, args)
MemberCall(target, function, args) == Node("call", <<function>>, TRUE, <<>>, <<target>> \o args)
ListExpr(elements) == Node("list", <<>>, FALSE, <<>>, elements)
\* MessageName = "": kids are key 1, value 1, key 2, value 2, ...
MapExpr(keysAndValues) == Node("struct", <<>>, FALSE, <<>>, keysAndValues)
\* MessageName # "": keys are the field keys, kids the values
MessageExpr(messageName, fieldKeys, values) == Node("struct", messageName, FALSE, fieldKeys, values)
\* name: <<IterVar, AccuVar>>; kids: IterRange, AccuInit, LoopCondition,
\* LoopStep, Result
CompExpr(iterVar, accuVar, range, init, cond, step, result) ==
    Node("comp", <<iterVar, accuVar>>, FALSE, <<>>, <<range, init, cond, step, result>>)


KidId(id, j) == id * IdBase + j

\* The nodes of tree t, whose root has the given id, as <<id, node>> pairs; a
\* node names its children by their ids.
RECURSIVE FlatNodes(_, _)
FlatNodes(t, id) ==
    { <<id, [t EXCEPT !.kids = [j \in DOMAIN t.kids |-> KidId(id, j)]]>> }
      \cup UNION { FlatNodes(t.kids[j], KidId(id, j)) : j \in DOMAIN t.kids }

RootId == 1

Flatten(t) ==
    LET pairs == FlatNodes(t, RootId)
    IN [id \in {p[1] : p \in pairs} |-> (CHOOSE p \in pairs : p[1] = id)[2]]

-----------------------------------------------------------------------------
(* The checker.  The operators below take and return the checker's         *)
(* mutable state as one record, so that a handler is the composition of    *)
(* the calls it makes.  After a panic nothing more is executed.            *)

\* No entry for the key in c.types.
Absent == Prim("absent")
\* No entry for the key in c.references.
NoReference == [name |-> <<"absent">>, overloadId |-> <<>>]

newIdentReference(name) == [name |-> name, overloadId |-> <<>>]
newFunctionReference(overloadId) == [name |-> <<>>, overloadId |-> <<overloadId>>]

Checker ==
    [types |-> types, references |-> references, mappings |-> mappings,
     counter |-> freeTypeVarCounter, scopes |-> scopes, errors |-> errors,
     panicked |-> panicked, calls |-> calls]

setType(c, id, t) ==
    IF c.panicked THEN c
    ELSE IF c.types[id] # Absent /\ c.types[id] # t THEN [c EXCEPT !.panicked = TRUE]
    ELSE [c EXCEPT !.types[id] = t]

getType(c, id) == IF c.types[id] = Absent THEN NilType ELSE c.types[id]

setReference(c, id, r) ==
    IF c.panicked THEN c
    ELSE IF c.references[id] # NoReference /\ c.references[id] # r
    THEN [c EXCEPT !.panicked = TRUE]
    ELSE [c EXCEPT !.references[id] = r]

\* c.env.errors.<kind>(c.location(e), ...)
report(c, kind, id) ==
    IF c.panicked THEN c ELSE [c EXCEPT !.errors = Append(@, [kind |-> kind, id |-> id])]

TypeVar(n) == NewTypeParam(<<"_var", ToString(n)>>)

\* The result of newTypeVar is TypeVar(c.counter).
newTypeVar(c) == [c EXCEPT !.counter = @ + 1]

\* isAssignable and isAssignableList: the store is replaced on success only.
isAssignable(c, t1, t2) ==
    LET store(subs) ==
            [ok |-> subs.ok, c |-> IF subs.ok THEN [c EXCEPT !.mappings = subs.m] ELSE c]
    IN store(IsAssignable(c.mappings, t1, t2))

isAssignableList(c, l1, l2) ==
    LET store(subs) ==
            [ok |-> subs.ok, c |-> IF subs.ok THEN [c EXCEPT !.mappings = subs.m] ELSE c]
    IN store(IsAssignableList(c.mappings, l1, l2))

\* The result is in .t, the checker in .c.
joinTypes(c, loc, previous, current) ==
    IF previous = NilType THEN [t |-> current, c |-> c]
    ELSE LET join(r) ==
                 IF ~r.ok THEN [t |-> previous, c |-> report(c, "aggregateTypeMismatch", loc)]
                 ELSE [t |-> MostGeneral(previous, current), c |-> r.c]
         IN join(isAssignable(c, previous, current))

assertType(c, id, t) ==
    LET assert(r) == IF ~r.ok THEN report(c, "typeMismatch", id) ELSE r.c
    IN assert(isAssignable(c, t, getType(c, id)))

NoField(c) == [found |-> FALSE, ft |-> FieldType(NilType, FALSE), c |-> c]

\* The result is in .found and .ft, the checker in .c.
lookupFieldType(c, loc, messageType, fieldName) ==
    LET msg == IF messageType.k = "Object" THEN messageType.n ELSE <<>>
    IN IF msg \notin DOMAIN MessageFields
       THEN NoField(report(c, "unexpectedFailedResolution", loc))
       ELSE IF fieldName \in DOMAIN MessageFields[msg]
       THEN [found |-> TRUE, ft |-> MessageFields[msg][fieldName], c |-> c]
       ELSE NoField(report(c, "undefinedField", loc))

\* asQualifiedName: an identifier, or a chain of selections from one.
RECURSIVE asQualifiedName(_)
asQualifiedName(id) ==
    LET e == ast[id]
    IN IF e.kind = "ident" THEN [found |-> TRUE, qname |-> e.name]
       ELSE IF e.kind = "select"
       THEN LET qualify(q) ==
                    IF q.found THEN [found |-> TRUE, qname |-> q.qname \o e.name]
                    ELSE [found |-> FALSE, qname |-> <<>>]
            IN qualify(asQualifiedName(e.kids[1]))
       ELSE [found |-> FALSE, qname |-> <<>>]


-----------------------------------------------------------------------------
(* resolveOverload.                                                        *)

\* The overload's function type, its type parameters replaced by fresh type
\* variables: .t is the type, .c the checker with its counter advanced.
instantiate(c, overload) ==
    LET overloadType == NewFunction(overload.result, overload.params)
        pars == overload.typeParams
        substitutions ==
            [name \in {pars[j] : j \in DOMAIN pars} |->
                TypeVar(c.counter + (CHOOSE j \in DOMAIN pars :
                    /\ pars[j] = name
                    /\ \A l \in DOMAIN pars : pars[l] = name => l <= j) - 1)]
    IN IF Len(pars) > 0
       THEN [t |-> Substitute(substitutions, overloadType, FALSE),
             c |-> [c EXCEPT !.counter = @ + Len(pars)]]
       ELSE [t |-> overloadType, c |-> c]

\* ref is the list of overload ids of the reference, <<>> while ref is nil.
matchReference(ref, overloadId) ==
    IF ref = <<>> THEN newFunctionReference(overloadId).overloadId
    ELSE Append(ref, overloadId)

\* A slip of matchResultType: the first matching overload's result is kept.
matchResultTypeKeepsFirst(resultType, m, overloadType) ==
    IF resultType = NilType THEN Substitute(m, overloadType.a[1], FALSE)
    ELSE resultType

\* resultType is NilType while it is nil.
matchResultType(resultType, m, overloadType) ==
    IF resultType = NilType THEN Substitute(m, overloadType.a[1], FALSE)
    ELSE Dyn

\* The loop over fn's overloads, from overload k on.
RECURSIVE resolveLoop(_, _, _, _, _, _, _)
resolveLoop(c, overloads, k, hasTarget, argTypes, ref, resultType) ==
    IF k > Len(overloads) THEN [c |-> c, ref |-> ref, resultType |-> resultType]
    ELSE IF hasTarget # overloads[k].isInstance
    THEN resolveLoop(c, overloads, k + 1, hasTarget, argTypes, ref, resultType)
    ELSE LET candidateArgTypes(overloadType) == Tail(overloadType.a)
             match(overloadType, r) ==
                 IF r.ok
                 THEN resolveLoop(r.c, overloads, k + 1, hasTarget, argTypes,
                                  matchReference(ref, overloads[k].id),
                                  matchResultType(resultType, r.c.mappings, overloadType))
                 ELSE resolveLoop(r.c, overloads, k + 1, hasTarget, argTypes, ref, resultType)
             try(inst) ==
                 match(inst.t, isAssignableList(inst.c, argTypes, candidateArgTypes(inst.t)))
         IN try(instantiate(c, overloads[k]))

\* A slip of noMatch: the call is typed Error where the failure is found.
noMatchTypesCall(c, id) == setType(report(c, "noMatchingOverload", id), id, Error)

\* No overload matched.
noMatch(c, id) == report(c, "noMatchingOverload", id)

NoResolution(c) == [found |-> FALSE, ref |-> <<>>, type |-> NilType, c |-> c]

\* args: the ids of the target, when there is one, and of the arguments.  The
\* resolution is in .found, .ref and .type, the checker in .c.
resolveOverload(c, id, fn, hasTarget, args) ==
    LET entry(argTypes, r) ==
            [id |-> id, fn |-> fn.name, target |-> hasTarget, argTypes |-> argTypes,
             store |-> c.mappings, counter |-> c.counter,
             ref |-> r.ref, type |-> r.resultType]
        result(r, logged) ==
            IF r.resultType = NilType
            THEN NoResolution(noMatch(logged, id))
            ELSE [found |-> TRUE, ref |-> r.ref, type |-> r.resultType, c |-> logged]
        log(argTypes, r) == result(r, [r.c EXCEPT !.calls = Append(@, entry(argTypes, r))])
        resolve(argTypes) ==
            log(argTypes, resolveLoop(c, fn.overloads, 1, hasTarget, argTypes, <<>>, NilType))
    IN resolve([j \in DOMAIN args |-> getType(c, args[j])])

-----------------------------------------------------------------------------
(* The walker.  A frame is a call of c.check(e) that has not returned: the *)
(* node, the place in its handler, and the handler's local variables.      *)

Frame(id) == [id |-> id, pc |-> "start", i |-> 0, t1 |-> NilType, t2 |-> NilType]

Top == stack[Len(stack)]
Pop == SubSeq(stack, 1, Len(stack) - 1)
\* The handler goes on as frame f and calls c.check on the child.
Call(f, child) == Append([stack EXCEPT ![Len(stack)] = f], Frame(child))

Running == ~done /\ ~panicked /\ stack # <<>>
At(kind, pc) == Running /\ ast[Top.id].kind = kind /\ Top.pc = pc

Commit(c, s) ==
    /\ types' = c.types
    /\ references' = c.references
    /\ mappings' = c.mappings
    /\ freeTypeVarCounter' = c.counter
    /\ scopes' = c.scopes
    /\ errors' = c.errors
    /\ panicked' = c.panicked
    /\ calls' = c.calls
    /\ stack' = s
    /\ UNCHANGED <<ast, container, typeMap, done>>

ConstType(kind) ==
    CASE kind = "bool" -> Bool
      [] kind = "bytes" -> Bytes
      [] kind = "double" -> Double
      [] kind = "int64" -> Int64
      [] kind = "null" -> Null
      [] kind = "string" -> String
      [] kind = "uint64" -> Uint64

checkConstant(c, id) == setType(c, id, ConstType(ast[id].name[1]))

CheckConstant ==
    /\ At("const", "start")
    /\ Commit(checkConstant(Checker, Top.id), Pop)

checkIdent(c, id) ==
    LET resolve(ident) ==
            IF ident.found
            THEN setReference(setType(c, id, ident.type), id, newIdentReference(ident.name))
            ELSE report(setType(c, id, Error), "undeclaredReference", id)
    IN resolve(LookupIdent(c.scopes, container, ast[id].name))

CheckIdent ==
    /\ At("ident", "start")
    /\ Commit(checkIdent(Checker, Top.id), Pop)

\* The selection read as a qualified name that is declared.
selectIdent(c, id) ==
    LET lookup(q) == IF q.found THEN LookupIdent(c.scopes, container, q.qname) ELSE NoDecl
    IN lookup(asQualifiedName(id))

checkSelectQualified(c, id) ==
    LET resolve(ident) ==
            IF ast[id].flag
            THEN setType(report(c, "expressionDoesNotSelectField", id), id, Bool)
            ELSE setReference(setType(c, id, ident.type), id, newIdentReference(ident.name))
    IN resolve(selectIdent(c, id))

\* checkSelect up to c.check(sel.Operand).
CheckSelect ==
    /\ At("select", "start")
    /\ IF selectIdent(Checker, Top.id).found
       THEN Commit(checkSelectQualified(Checker, Top.id), Pop)
       ELSE Commit(Checker, Call([Top EXCEPT !.pc = "operand"], ast[Top.id].kids[1]))

checkSelectField(c, id) ==
    LET sel == ast[id]
        targetType == getType(c, sel.kids[1])
        kind == KindOf(targetType)
        checked(field) ==
            IF kind \in {"Error", "Dyn", "Map"} THEN c
            ELSE IF kind = "Object"
            THEN IF field.found /\ sel.flag /\ ~field.ft.SupportsPresence
                 THEN report(field.c, "fieldDoesNotSupportPresenceCheck", id)
                 ELSE field.c
            ELSE report(c, "typeDoesNotSupportFieldSelection", id)
        resultType(field) ==
            IF kind \in {"Error", "Dyn"} THEN Dyn
            ELSE IF kind = "Object"
            THEN IF field.found THEN field.ft.Type ELSE Error
            ELSE IF kind = "Map" THEN targetType.a[2]
            ELSE Error
        select(field) == setType(checked(field), id, IF sel.flag THEN Bool ELSE resultType(field))
    IN select(IF kind = "Object" THEN lookupFieldType(c, id, targetType, sel.name[1])
              ELSE NoField(c))

\* checkSelect after c.check(sel.Operand).
CheckSelectField ==
    /\ At("select", "operand")
    /\ Commit(checkSelectField(Checker, Top.id), Pop)


-----------------------------------------------------------------------------
(* checkCall.                                                              *)

Target(id) == ast[id].kids[1]
Args(id) == IF ast[id].flag THEN Tail(ast[id].kids) ELSE ast[id].kids

\* The end of checkCall: the resolution, or Error.
setResolution(c, id, resolution) ==
    IF resolution.found
    THEN setReference(setType(c, id, resolution.type), id,
                      [name |-> <<>>, overloadId |-> resolution.ref])
    ELSE setType(c, id, Error)

\* A call by simple name, with the target as first argument when hasTarget.
checkNamedCall(c, id, hasTarget) ==
    LET write(resolution) == setResolution(resolution.c, id, resolution)
        resolve(fn) ==
            IF fn.found
            THEN write(resolveOverload(c, id, fn, hasTarget,
                                       IF hasTarget THEN ast[id].kids ELSE Args(id)))
            ELSE setType(report(c, "undeclaredReference", id), id, Error)
    IN resolve(LookupFunction(container, ast[id].name))

\* The target read as a qualified name q such that q.function is declared.
qualifiedFunction(id) ==
    LET lookup(q) ==
            IF q.found THEN LookupFunction(container, q.qname \o ast[id].name) ELSE NoFunction
    IN lookup(asQualifiedName(Target(id)))

\* The resolution of the call as a static call of the qualified function.
checkQualifiedCall(c, id) ==
    LET resolve(fn) ==
            IF fn.found THEN resolveOverload(c, id, fn, FALSE, Args(id)) ELSE NoResolution(c)
    IN resolve(qualifiedFunction(id))

\* The loop over call.Args: c.check(arg) for the next argument.
CheckCallArg ==
    /\ At("call", "start")
    /\ Top.i < Len(Args(Top.id))
    /\ Commit(Checker, Call([Top EXCEPT !.i = @ + 1], Args(Top.id)[Top.i + 1]))

\* checkCall after its arguments, up to c.check(call.Target) if it is reached.
CheckCall ==
    /\ At("call", "start")
    /\ Top.i = Len(Args(Top.id))
    /\ IF ~ast[Top.id].flag
       THEN Commit(checkNamedCall(Checker, Top.id, FALSE), Pop)
       ELSE LET write(resolution) ==
                    IF resolution.found
                    THEN Commit(setResolution(resolution.c, Top.id, resolution), Pop)
                    ELSE Commit(resolution.c,
                                Call([Top EXCEPT !.pc = "target"], Target(Top.id)))
            IN write(checkQualifiedCall(Checker, Top.id))

\* checkCall after c.check(call.Target): the regular instance call.
CheckInstanceCall ==
    /\ At("call", "target")
    /\ Commit(checkNamedCall(Checker, Top.id, TRUE), Pop)

-----------------------------------------------------------------------------
(* checkCreateList.  Frame: i elements are checked, t1 is elemType before  *)
(* the join with element i.                                                *)

listJoin(c, f) ==
    IF f.i = 0 THEN [t |-> f.t1, c |-> c]
    ELSE LET e == ast[f.id].kids[f.i]
         IN joinTypes(c, e, f.t1, getType(c, e))

\* The loop: the join with the element just checked, c.check of the next.
CheckListElement ==
    /\ At("list", "start")
    /\ Top.i < Len(ast[Top.id].kids)
    /\ LET next(j) ==
               Commit(j.c, Call([Top EXCEPT !.i = @ + 1, !.t1 = j.t],
                                ast[Top.id].kids[Top.i + 1]))
       IN next(listJoin(Checker, Top))

checkCreateList(c, f) ==
    LET create(j) ==
            IF j.t = NilType
            THEN setType(newTypeVar(j.c), f.id, NewList(TypeVar(j.c.counter)))
            ELSE setType(j.c, f.id, NewList(j.t))
    IN create(listJoin(c, f))

CheckCreateList ==
    /\ At("list", "start")
    /\ Top.i = Len(ast[Top.id].kids)
    /\ Commit(checkCreateList(Checker, Top), Pop)

-----------------------------------------------------------------------------
(* checkCreateStruct.                                                      *)

IsMessage(id) == ast[id].kind = "struct" /\ ast[id].name # <<>>
IsMap(id) == ast[id].kind = "struct" /\ ast[id].name = <<>>

\* checkCreateMap.  Frame: i of the keys and values are checked, t1 is keyType
\* and t2 valueType before the join with the one just checked.
mapJoin(c, f) ==
    IF f.i = 0 THEN [t1 |-> f.t1, t2 |-> f.t2, c |-> c]
    ELSE LET e == ast[f.id].kids[f.i]
             key(j) == [t1 |-> j.t, t2 |-> f.t2, c |-> j.c]
             value(j) == [t1 |-> f.t1, t2 |-> j.t, c |-> j.c]
         IN IF f.i % 2 = 1
            THEN key(joinTypes(c, e, f.t1, getType(c, e)))
            ELSE value(joinTypes(c, e, f.t2, getType(c, e)))

CheckMapEntry ==
    /\ At("struct", "start") /\ IsMap(Top.id)
    /\ Top.i < Len(ast[Top.id].kids)
    /\ LET next(j) ==
               Commit(j.c, Call([Top EXCEPT !.i = @ + 1, !.t1 = j.t1, !.t2 = j.t2],
                                ast[Top.id].kids[Top.i + 1]))
       IN next(mapJoin(Checker, Top))

checkCreateMap(c, f) ==
    LET create(j) ==
            IF j.t1 = NilType
            THEN setType(newTypeVar(newTypeVar(j.c)), f.id,
                         NewMap(TypeVar(j.c.counter), TypeVar(j.c.counter + 1)))
            ELSE setType(j.c, f.id, NewMap(j.t1, j.t2))
    IN create(mapJoin(c, f))

CheckCreateMap ==
    /\ At("struct", "start") /\ IsMap(Top.id)
    /\ Top.i = Len(ast[Top.id].kids)
    /\ Commit(checkCreateMap(Checker, Top), Pop)

\* checkCreateMessage.  The type of the message from its declaration.
messageTypeOf(c, id, identType) ==
    IF KindOf(identType) = "Error" THEN [t |-> Error, c |-> c]
    ELSE IF KindOf(identType) # "Type" THEN [t |-> Error, c |-> report(c, "notAType", id)]
    ELSE IF KindOf(identType.a[1]) # "Object"
    THEN [t |-> Error, c |-> report(c, "notAMessageType", id)]
    ELSE [t |-> identType.a[1], c |-> c]

\* A message whose name is not declared: checkCreateMessage returns.
undeclaredMessage(c, id) == report(c, "undeclaredReference", id)

\* checkCreateMessage up to the loop over the field initializers.
checkMessageType(c, id) ==
    LET write(m) == [t |-> m.t, c |-> setType(m.c, id, m.t)]
        determine(decl) ==
            write(messageTypeOf(setReference(c, id, newIdentReference(decl.name)),
                                id, decl.type))
    IN determine(LookupIdent(c.scopes, container, ast[id].name))

CheckCreateMessage ==
    /\ At("struct", "start") /\ IsMessage(Top.id)
    /\ IF ~LookupIdent(scopes, container, ast[Top.id].name).found
       THEN Commit(undeclaredMessage(Checker, Top.id), Pop)
       ELSE LET fields(m) ==
                    Commit(m.c, [stack EXCEPT ![Len(stack)] =
                                    [Top EXCEPT !.pc = "fields", !.t1 = m.t]])
            IN fields(checkMessageType(Checker, Top.id))

\* The part of the loop body after c.check(value), for entry f.i.  The entry's
\* location stands for the entry.
checkField(c, f) ==
    IF f.i = 0 THEN c
    ELSE LET value == ast[f.id].kids[f.i]
             fieldType(field) == IF field.found THEN field.ft.Type ELSE Error
             mismatch(field, r) ==
                 IF ~r.ok THEN report(field.c, "fieldTypeMismatch", value) ELSE r.c
             assign(field) ==
                 mismatch(field, isAssignable(field.c, fieldType(field),
                                              getType(field.c, value)))
         IN assign(lookupFieldType(c, value, f.t1, ast[f.id].keys[f.i]))

\* The loop over the field initializers: c.check(value) for the next entry.
CheckMessageField ==
    /\ At("struct", "fields")
    /\ Top.i < Len(ast[Top.id].kids)
    /\ Commit(checkField(Checker, Top), Call([Top EXCEPT !.i = @ + 1], ast[Top.id].kids[Top.i + 1]))

CheckMessageDone ==
    /\ At("struct", "fields")
    /\ Top.i = Len(ast[Top.id].kids)
    /\ Commit(checkField(Checker, Top), Pop)


-----------------------------------------------------------------------------
(* checkComprehension.  Frame: t1 is accuType, t2 is varType.              *)

IterRange(id) == ast[id].kids[1]
AccuInit(id) == ast[id].kids[2]
LoopCondition(id) == ast[id].kids[3]
LoopStep(id) == ast[id].kids[4]
Result(id) == ast[id].kids[5]
IterVar(id) == ast[id].name[1]
AccuVar(id) == ast[id].name[2]

CheckComprehension ==
    /\ At("comp", "start")
    /\ Commit(Checker, Call([Top EXCEPT !.pc = "range"], IterRange(Top.id)))

CheckAccuInit ==
    /\ At("comp", "range")
    /\ Commit(Checker, Call([Top EXCEPT !.pc = "init"], AccuInit(Top.id)))

\* The type of the iteration variable; nil for a range that is none.
varTypeOf(rangeType) ==
    CASE KindOf(rangeType) = "List" -> rangeType.a[1]
      [] KindOf(rangeType) = "Map" -> rangeType.a[1]
      [] KindOf(rangeType) \in {"Dyn", "Error"} -> Dyn
      [] OTHER -> NilType

\* From the switch on the range's kind to c.check(comp.LoopCondition).
enterComprehension(c, id) ==
    LET accuType == getType(c, AccuInit(id))
        rangeType == getType(c, IterRange(id))
        varType == varTypeOf(rangeType)
        c1 == IF KindOf(rangeType) \in {"List", "Map", "Dyn", "Error"} THEN c
              ELSE report(c, "notAComprehensionRange", IterRange(id))
        outer == AddIdent(EnterScope(c1.scopes), AccuVar(id), accuType)
        inner == AddIdent(EnterScope(outer), IterVar(id), varType)
    IN [c1 EXCEPT !.scopes = inner]

CheckLoopCondition ==
    /\ At("comp", "init")
    /\ Commit(enterComprehension(Checker, Top.id),
              Call([Top EXCEPT !.pc = "cond",
                               !.t1 = getType(Checker, AccuInit(Top.id)),
                               !.t2 = varTypeOf(getType(Checker, IterRange(Top.id)))],
                   LoopCondition(Top.id)))

CheckLoopStep ==
    /\ At("comp", "cond")
    /\ Commit(assertType(Checker, LoopCondition(Top.id), Bool),
              Call([Top EXCEPT !.pc = "step"], LoopStep(Top.id)))

\* A slip of leaveLoop: the inner scope is not left.
leaveLoopKeepsScope(c, f) == assertType(c, LoopStep(f.id), f.t1)

\* From assertType(comp.LoopStep, accuType) to c.check(comp.Result).
leaveLoop(c, f) ==
    [assertType(c, LoopStep(f.id), f.t1) EXCEPT !.scopes = ExitScope(@)]

CheckResult ==
    /\ At("comp", "step")
    /\ Commit(leaveLoop(Checker, Top), Call([Top EXCEPT !.pc = "result"], Result(Top.id)))

\* A slip of leaveComprehension: the outer scope is not left.
leaveComprehensionKeepsScope(c, id) == setType(c, id, getType(c, Result(id)))

\* The end of checkComprehension.
leaveComprehension(c, id) ==
    LET c1 == [c EXCEPT !.scopes = ExitScope(@)]
    IN setType(c1, id, getType(c1, Result(id)))

CheckComprehensionDone ==
    /\ At("comp", "result")
    /\ Commit(leaveComprehension(Checker, Top.id), Pop)

-----------------------------------------------------------------------------
(* Check.                                                                  *)

NoTypes == [id \in DOMAIN ast |-> Absent]

\* A slip of finalTypeMap: unbound type parameters are kept.
finalTypeMapKeepsParams(c) ==
    [id \in DOMAIN c.types |->
        IF c.types[id] = Absent THEN Absent ELSE Substitute(c.mappings, c.types[id], FALSE)]

\* The final pass over c.types.
finalTypeMap(c) ==
    [id \in DOMAIN c.types |->
        IF c.types[id] = Absent THEN Absent ELSE Substitute(c.mappings, c.types[id], TRUE)]

\* c.check(parsedExpr.GetExpr()) has returned.
Return ==
    /\ ~done /\ ~panicked /\ stack = <<>>
    /\ typeMap' = finalTypeMap(Checker)
    /\ done' = TRUE
    /\ UNCHANGED <<ast, container, stack, types, references, mappings,
                   freeTypeVarCounter, scopes, errors, panicked, calls>>


-----------------------------------------------------------------------------
(* The inputs: expressions and containers.                                 *)

SeqsUpTo(S, n) == UNION { [1..k -> S] : k \in 0..n }

IntLit == ConstExpr("int64")
StringLit == ConstExpr("string")
BoolLit == ConstExpr("bool")

\* x is declared, u is not; i and acc are the variables of comprehensions.
Atoms ==
    { IntLit, StringLit, BoolLit, IdentExpr("x"), IdentExpr("u"),
      IdentExpr("i"), IdentExpr("acc"), ListExpr(<<>>) }

Leaves ==
    Atoms \cup { IdentExpr("pkg"), IdentExpr("m"), IdentExpr("msg"), IdentExpr("xs"),
                 MapExpr(<<>>), MessageExpr(<<"Nope">>, <<>>, <<>>) }

CallNames == {"f", "_+_", "h", "size", "g", "nofn"}

\* Calls and lists over atoms.
WideCalls == { StaticCall(fn, args) : fn \in CallNames, args \in SeqsUpTo(Atoms, MaxArgs) }
WideLists == { ListExpr(es) : es \in SeqsUpTo(Atoms, MaxElems) }

\* Comprehensions over atoms.  The iteration variable may be declared in the
\* root scope (x), and may be the accumulator variable.
CompVars == { <<"i", "acc">>, <<"x", "acc">>, <<"i", "i">> }
WideComps ==
    { CompExpr(v[1], v[2], range, init, cond, step, result) :
        v \in CompVars,
        range \in { IdentExpr("xs"), IdentExpr("m"), ListExpr(<<>>), IntLit, IdentExpr("u") },
        init \in { IntLit, ListExpr(<<>>) },
        cond \in { BoolLit, IdentExpr("i") },
        step \in { IdentExpr("acc"), IdentExpr("i") },
        result \in { IdentExpr("acc"), IdentExpr("i"), IdentExpr("x") } }

\* The comprehensions with h as one child.  Those around their range, their
\* initial value or their condition declare i and acc, the others j and b.
CompsAround(h) ==
    { CompExpr("i", "acc", h, IntLit, BoolLit, IdentExpr("acc"), IdentExpr("acc")),
      CompExpr("i", "acc", IdentExpr("xs"), h, BoolLit, IdentExpr("acc"), IdentExpr("acc")),
      CompExpr("i", "acc", IdentExpr("xs"), IntLit, h, IdentExpr("acc"), IdentExpr("acc")),
      CompExpr("j", "b", IdentExpr("xs"), IntLit, BoolLit, h, IdentExpr("b")),
      CompExpr("j", "b", IdentExpr("xs"), IntLit, BoolLit, IdentExpr("b"), h) }

\* The composite expressions with h as one child, used at every depth.
NestAround(h) ==
    CompsAround(h) \cup
    { SelectExpr(h, "fx", FALSE),
      StaticCall("f", <<h>>),
      MemberCall(h, "g", <<StringLit>>),
      MemberCall(h, "size", <<>>),
      ListExpr(<<IntLit, h>>),
      MapExpr(<<StringLit, h>>),
      MessageExpr(MsgName, <<"fx">>, <<h>>) }

\* The composite expressions with h as one child, used around a leaf.
WrapAround(h) ==
    NestAround(h) \cup
    { SelectExpr(h, field, testOnly) : field \in {"Msg", "fx", "fs"}, testOnly \in BOOLEAN } \cup
    { MemberCall(h, "g", <<a>>) : a \in {IntLit, BoolLit} } \cup
    { StaticCall("size", <<h>>),
      MemberCall(h, "nofn", <<>>),
      MapExpr(<<h, IntLit>>),
      MapExpr(<<StringLit, IntLit, StringLit, h>>),
      MessageExpr(<<"Msg">>, <<"nf">>, <<h>>),
      MessageExpr(<<"Nope">>, <<"fx">>, <<h>>),
      MessageExpr(<<"x">>, <<"fx">>, <<h>>) }

DeepLeaves ==
    { IntLit, IdentExpr("i"), IdentExpr("j"), IdentExpr("acc"), IdentExpr("pkg"),
      ListExpr(<<>>), MessageExpr(<<"Nope">>, <<>>, <<>>) }

\* d composite expressions nested in one another around a leaf.
RECURSIVE Nested(_)
Nested(d) ==
    IF d = 0 THEN DeepLeaves
    ELSE UNION { NestAround(h) : h \in Nested(d - 1) }

Exprs ==
    Leaves \cup WideCalls \cup WideLists \cup WideComps
      \cup UNION { WrapAround(h) : h \in Leaves }
      \cup UNION { Nested(d) : d \in 2..MaxDepth }

Containers == { <<>>, <<"pkg">> }

-----------------------------------------------------------------------------
Init ==
    /\ ast \in { Flatten(e) : e \in Exprs }
    /\ container \in Containers
    /\ stack = <<Frame(RootId)>>
    /\ types = NoTypes
    /\ references = [id \in DOMAIN ast |-> NoReference]
    /\ mappings = NewMapping
    /\ freeTypeVarCounter = 0
    /\ scopes = <<RootIdents>>
    /\ errors = <<>>
    /\ panicked = FALSE
    /\ calls = <<>>
    /\ typeMap = NoTypes
    /\ done = FALSE

Next ==
    \/ CheckConstant
    \/ CheckIdent
    \/ CheckSelect
    \/ CheckSelectField
    \/ CheckCallArg
    \/ CheckCall
    \/ CheckInstanceCall
    \/ CheckListElement
    \/ CheckCreateList
    \/ CheckMapEntry
    \/ CheckCreateMap
    \/ CheckCreateMessage
    \/ CheckMessageField
    \/ CheckMessageDone
    \/ CheckComprehension
    \/ CheckAccuInit
    \/ CheckLoopCondition
    \/ CheckLoopStep
    \/ CheckResult
    \/ CheckComprehensionDone
    \/ Return

Spec == Init /\ [][Next]_vars


-----------------------------------------------------------------------------
(* Properties.                                                             *)

Ids == DOMAIN ast

\* Node n is in the subtree of node r.
RECURSIVE IsUnder(_, _)
IsUnder(n, r) ==
    IF n = r THEN TRUE
    ELSE IF n < r THEN FALSE
    ELSE IsUnder(n \div IdBase, r)

\* The number of diagnostics of the kind at the node.
Diagnostics(kind, id) ==
    Cardinality({ k \in DOMAIN errors : errors[k] = [kind |-> kind, id |-> id] })

\* C1: after Check returns, types[id] is defined for every node reachable
\* from the root.
C1_EveryNodeTyped ==
    done => \A id \in Ids : typeMap[id] # Absent

\* Type u is type t with every type parameter replaced by its bound value in
\* m, or by Dyn when it has none.
RECURSIVE Resolves(_, _, _)
Resolves(m, t, u) ==
    IF t.k = "TypeParam"
    THEN IF t.n \in DOMAIN m THEN Resolves(m, m[t.n], u) ELSE u = Dyn
    ELSE /\ u.k = t.k
         /\ u.n = t.n
         /\ Len(u.a) = Len(t.a)
         /\ \A i \in DOMAIN t.a : Resolves(m, t.a[i], u.a[i])

\* C2: no type of the returned type map contains a type parameter: every
\* entry is the entry of c.types with each type variable replaced by its
\* bound value, or by Dyn when it is unbound; an empty list literal that
\* nothing constrains is List(Dyn), an empty map literal Map(Dyn, Dyn).
C2_NoTypeParamInTypeMap ==
    done =>
        /\ \A id \in Ids :
            /\ ~HasTypeParam(typeMap[id])
            /\ (typeMap[id] = Absent) = (types[id] = Absent)
            /\ types[id] # Absent => Resolves(mappings, types[id], typeMap[id])
        /\ ast[RootId].kind = "list" /\ ast[RootId].kids = <<>>
              => typeMap[RootId] = NewList(Dyn)
        /\ IsMap(RootId) /\ ast[RootId].kids = <<>>
              => typeMap[RootId] = NewMap(Dyn, Dyn)

\* Check has returned a type map in which the final pass replaced a bound
\* type variable and an unbound one, the latter by Dyn.
C2_Witness ==
    /\ done
    /\ \E id \in Ids :
        /\ types[id].k = "List" /\ types[id].a[1].k = "TypeParam"
        /\ types[id].a[1].n \in DOMAIN mappings
        /\ ~HasTypeParam(typeMap[id])
    /\ \E id \in Ids :
        /\ types[id].k = "List" /\ types[id].a[1].k = "TypeParam"
        /\ types[id].a[1].n \notin DOMAIN mappings
        /\ typeMap[id] = NewList(Dyn)

\* The overloads of os[k..] that accept argTypes, each tested against the
\* store m left by the accepting overloads before it, with n the number of
\* type variables made so far: for each its id and its declared result, its
\* type parameters instantiated and the store applied.
RECURSIVE Accepting(_, _, _, _, _, _)
Accepting(os, k, hasTarget, argTypes, m, n) ==
    IF k > Len(os) THEN <<>>
    ELSE IF os[k].isInstance # hasTarget
    THEN Accepting(os, k + 1, hasTarget, argTypes, m, n)
    ELSE LET pars == os[k].typeParams
             fresh == [name \in {pars[j] : j \in DOMAIN pars} |->
                          TypeVar(n + (CHOOSE j \in DOMAIN pars : pars[j] = name) - 1)]
             params == [j \in DOMAIN os[k].params |-> Substitute(fresh, os[k].params[j], FALSE)]
             r == IsAssignableList(m, argTypes, params)
         IN IF r.ok
            THEN << [id |-> os[k].id,
                     result |-> Substitute(r.m, Substitute(fresh, os[k].result, FALSE), FALSE)] >>
                 \o Accepting(os, k + 1, hasTarget, argTypes, r.m, n + Len(pars))
            ELSE Accepting(os, k + 1, hasTarget, argTypes, m, n + Len(pars))

AcceptingOf(call) ==
    Accepting(Functions[call.fn], 1, call.target, call.argTypes, call.store, call.counter)

\* C3: in resolveOverload, among the overloads whose is_instance flag equals
\* the presence of a receiver, each tested against the store as the ones
\* before it left it: when exactly one accepts the argument types the call's
\* type is that overload's declared result with the store applied, when two
\* or more accept them the call's type is Dyn; in both cases the call's
\* reference lists the ids of the accepting overloads in declaration order.
C3_OverloadResolution ==
    \A k \in DOMAIN calls :
        LET accepting == AcceptingOf(calls[k])
            id == calls[k].id
        IN /\ Len(accepting) = 1 => types[id] = accepting[1].result
           /\ Len(accepting) >= 2 => types[id] = Dyn
           /\ Len(accepting) >= 1 =>
                references[id] =
                    [name |-> <<>>,
                     overloadId |-> [j \in DOMAIN accepting |-> accepting[j].id]]

\* A call resolved to two overloads, with an overload between them that does
\* not accept the arguments.
C3_Witness ==
    \E k \in DOMAIN calls :
        /\ Len(AcceptingOf(calls[k])) = 2
        /\ types[calls[k].id] = Dyn
        /\ references[calls[k].id].overloadId = <<"add_int64", "add_any">>

\* C4: when a call's function is declared but no overload accepts the
\* argument types, exactly one no-matching-overload diagnostic is emitted for
\* the call, the call is typed Error, it has no reference, and every
\* argument of the call has a type.
C4_NoMatchingOverload ==
    done =>
        \A k \in DOMAIN calls :
            calls[k].type = NilType =>
                LET id == calls[k].id
                IN /\ Diagnostics("noMatchingOverload", id) = 1
                   /\ types[id] = Error
                   /\ references[id] = NoReference
                   /\ \A j \in DOMAIN Args(id) : types[Args(id)[j]] # Absent


Comps == { k \in Ids : ast[k].kind = "comp" }
IdentsNamed(v) == { n \in Ids : ast[n].kind = "ident" /\ ast[n].name = <<v>> }
InLoop(n, k) == IsUnder(n, LoopCondition(k)) \/ IsUnder(n, LoopStep(k))

\* Name v is declared for node n by something else than comprehension k: in
\* the root scope, or by a comprehension in whose scope n is.
DeclaredElsewhere(v, n, k) ==
    \/ \E j \in DOMAIN Candidates(container, <<v>>) :
          Candidates(container, <<v>>)[j] \in DOMAIN RootIdents
    \/ \E k2 \in Comps \ {k} :
          \/ IterVar(k2) = v /\ InLoop(n, k2)
          \/ AccuVar(k2) = v /\ (InLoop(n, k2) \/ IsUnder(n, Result(k2)))

\* C5: for a comprehension over a list or a map whose iteration variable is
\* declared nowhere else, a reference to the iteration variable has the
\* range's element or key type inside loop-condition and loop-step, and is an
\* undeclared reference of type Error inside result, where the accumulator
\* variable is still visible.
C5_IterVarScope ==
    \A k \in Comps :
        types[IterRange(k)].k \in {"List", "Map"} /\ types[AccuInit(k)] # Absent =>
            /\ \A n \in IdentsNamed(IterVar(k)) :
                  /\ types[n] # Absent
                  /\ IterVar(k) # AccuVar(k)
                  /\ ~DeclaredElsewhere(IterVar(k), n, k)
                  => /\ InLoop(n, k) =>
                          /\ types[n] = types[IterRange(k)].a[1]
                          /\ references[n] = newIdentReference(<<IterVar(k)>>)
                          /\ Diagnostics("undeclaredReference", n) = 0
                     /\ IsUnder(n, Result(k)) =>
                          /\ types[n] = Error
                          /\ references[n] = NoReference
                          /\ Diagnostics("undeclaredReference", n) = 1
            /\ \A n \in IdentsNamed(AccuVar(k)) :
                  /\ types[n] # Absent
                  /\ IsUnder(n, Result(k))
                  /\ ~DeclaredElsewhere(AccuVar(k), n, k)
                  => /\ types[n] = types[AccuInit(k)]
                     /\ references[n] = newIdentReference(<<AccuVar(k)>>)

\* Check has returned for a comprehension over a map, with the iteration
\* variable referred to in its loop, where it has the key type, and in its
\* result, where it is undeclared.
C5_Witness ==
    /\ done
    /\ \E k \in Comps :
        /\ types[IterRange(k)] = NewMap(String, Int64)
        /\ IterVar(k) # AccuVar(k)
        /\ \E n \in IdentsNamed(IterVar(k)) :
              /\ InLoop(n, k) /\ ~DeclaredElsewhere(IterVar(k), n, k)
              /\ types[n] = String
        /\ \E n \in IdentsNamed(IterVar(k)) :
              /\ IsUnder(n, Result(k)) /\ ~DeclaredElsewhere(IterVar(k), n, k)
              /\ types[n] = Error

\* C6: every undeclared reference (of an identifier, of a call's function, of
\* a message name) is recorded with an undeclared-reference diagnostic and
\* its node is typed Error.
C6_UndeclaredTypedError ==
    done =>
        \A k \in DOMAIN errors :
            errors[k].kind = "undeclaredReference" => types[errors[k].id] = Error

\* C7: on an expression whose nodes have pairwise distinct ids, setType and
\* setReference never find a different value at the id and never panic.
C7_NoPanic == ~panicked

\* Check has returned for a call whose qualified static lookup found a
\* function no overload of which matched, and which was then resolved as an
\* instance call.
C7_Witness ==
    /\ done
    /\ \E k \in DOMAIN calls :
        /\ k + 1 \in DOMAIN calls
        /\ calls[k].id = calls[k + 1].id
        /\ ~calls[k].target /\ calls[k].type = NilType
        /\ calls[k + 1].target /\ types[calls[k].id] = calls[k + 1].type
        /\ references[calls[k].id] # NoReference

\* C8: when a call's receiver reads as a qualified name q and q.function is
\* declared, the call is a static call without receiver: the receiver's
\* subtree gets no types and no diagnostics and the bare function name is
\* not looked up as an instance call, whether or not an overload of
\* q.function accepts the arguments.
C8_QualifiedCallIsStatic ==
    \A id \in Ids :
        ast[id].kind = "call" /\ ast[id].flag /\ qualifiedFunction(id).found =>
            /\ \A n \in Ids : IsUnder(n, Target(id)) =>
                  /\ types[n] = Absent
                  /\ \A k \in DOMAIN errors : errors[k].id # n
            /\ \A k \in DOMAIN calls : calls[k].id = id => ~calls[k].target
            /\ Diagnostics("undeclaredReference", id) = 0

\* The comprehensions in whose scopes the walker is.
Entered == { j \in DOMAIN stack :
                ast[stack[j].id].kind = "comp" /\ stack[j].pc \in {"cond", "step", "result"} }

\* C9: a comprehension whose range is not a list, a map, Dyn or Error gets a
\* not-a-comprehension-range diagnostic and enters no scope: its variables
\* are not added to the environment and the scope stack is not pushed.
C9_NoScopeOnBadRange ==
    \A j \in DOMAIN stack :
        LET k == stack[j].id
        IN /\ ast[k].kind = "comp"
           /\ Diagnostics("notAComprehensionRange", IterRange(k)) > 0
           => /\ Diagnostics("notAComprehensionRange", IterRange(k)) = 1
              /\ j \notin Entered
              /\ Entered \subseteq 1..j => Len(scopes) = 1

InitialDepth == Len(<<RootIdents>>)

\* The comprehensions on the stack, and those whose loop is being checked.
CompFrames == { j \in DOMAIN stack : ast[stack[j].id].kind = "comp" }
InLoopFrames == { j \in CompFrames : stack[j].pc \in {"cond", "step"} }
InResultFrames == { j \in CompFrames : stack[j].pc = "result" }

\* C10 as stated: the depth of the scope stack is never below its initial
\* value, is the initial depth when Check returns, and while a loop-condition
\* or loop-step is being checked it is the initial depth plus twice the
\* nesting level of the comprehension.  The nesting level is read both ways:
\* the comprehensions whose loop encloses the node, or all the comprehensions
\* that enclose it; the statement is taken to hold if either reading does.
C10_DepthTwicePerLevel ==
    ~panicked =>
        /\ Len(scopes) >= InitialDepth
        /\ done => Len(scopes) = InitialDepth
        /\ \A j \in InLoopFrames :
              (\A l \in CompFrames : l <= j) =>
                  \/ Len(scopes) = InitialDepth + 2 * Cardinality(InLoopFrames)
                  \/ Len(scopes) = InitialDepth + 2 * Cardinality(CompFrames)

\* C10, amended: the depth of the scope stack is the initial depth, plus two
\* for every enclosing comprehension whose loop-condition or loop-step is
\* being checked, plus one for every enclosing comprehension whose result is
\* being checked; so it is never below the initial depth, and after a
\* comprehension and after Check it is what it was before.
C10_ScopeDepth ==
    ~panicked =>
        /\ Len(scopes) = InitialDepth + 2 * Cardinality(InLoopFrames)
                                      + Cardinality(InResultFrames)
        /\ Len(scopes) >= InitialDepth
        /\ done => Len(scopes) = InitialDepth

\* The loop-condition of a comprehension is being checked inside the result
\* of another.
C10_Witness ==
    /\ ~panicked
    /\ Cardinality(InLoopFrames) = 1
    /\ Cardinality(InResultFrames) = 1
    /\ Len(scopes) = InitialDepth + 3

=============================================================================
